---- MODULE Spec2Model ----
(***************************************************************************)
(* Model of the jet-tagging training harness.                              *)
(*                                                                         *)
(*   src/module_training.py  BinaryLitModel: forward, the per-phase metric *)
(*                           buffers and the epoch lifecycle hooks         *)
(*   src/a.py                train(): checkpoint discovery, trainer.fit,   *)
(*                           trainer.test, wandb.finish                    *)
(*                                                                         *)
(* Three specifications share the hook actions:                            *)
(*   Spec         one call of train(); the hooks run in the order in which *)
(*                the Lightning trainer invokes them                       *)
(*   SpecHooks    the hooks of one BinaryLitModel invoked in any sequence  *)
(*   SpecForward  one batch step on freshly reset buffers                  *)
(* An exception raised inside a hook propagates out of the run: the state  *)
(* with err # "none" is final.                                             *)
(***************************************************************************)
EXTENDS Integers, Sequences, FiniteSets, TLC

VARIABLES
    graph,            \* BinaryLitModel.graph
    y_true_buffer,    \* mode -> attribute y_<mode>_true_buffer
    y_score_buffer,   \* mode -> attribute y_<mode>_score_buffer
    start_time,       \* attribute start_time
    logged,           \* the self.log calls of the hook that ran last
    err,              \* exception that ended the run, "none" while running
    pc,               \* position of the caller of the hooks
    epoch,            \* trainer.current_epoch
    wandb,            \* cf["wandb"]
    listing,          \* the checkpoint directory as os.listdir sees it
    ckpt_path,        \* local variable ckpt_path of train()
    calls,            \* trainer.fit / trainer.test / wandb.finish calls made
    loader,           \* samples the data loader in use still holds
    epochBatches,     \* history: mode -> batches stepped since the phase start
    phaseState,       \* history: mode -> lifecycle state of the phase
    reads,            \* history: mode -> aggregate reads since the phase start
    completed,        \* history: mode -> a phase-epoch of the mode has ended
    lastOp            \* history: the hook that ran last, with its batch

vars == <<graph, y_true_buffer, y_score_buffer, start_time, logged, err, pc,
          epoch, wandb, listing, ckpt_path, calls, loader, epochBatches,
          phaseState, reads, completed, lastOp>>

modelVars == <<graph, y_true_buffer, y_score_buffer, start_time, logged, err>>
driverVars == <<wandb, listing, ckpt_path, calls>>

----------------------------------------------------------------------------
(* Bounds *)

MaxSamples == 3     \* samples fed to the hooks when they run in any sequence
MaxLen == 4         \* samples of the batch in the single-step specification
LoaderSize == 2     \* samples a data loader of train() yields in one pass
MaxEpochs == 1      \* cf["max_epochs"], scaled down
MaxEntries == 2     \* entries of the checkpoint directory
MaxExtraNodes == 1  \* nodes of a graph batch beyond one per graph

Modes == {"train", "valid", "test"}
Labels == {0, 1}
Logits == {-1, 0, 1}

----------------------------------------------------------------------------
(* Attributes and tensors *)

NoAttr == [exists |-> FALSE, data |-> <<>>]
Tensor(s) == [exists |-> TRUE, data |-> s]

Max(a, b) == IF a >= b THEN a ELSE b

RECURSIVE GCD(_, _)
GCD(a, b) == IF b = 0 THEN a ELSE GCD(b, a % b)

RECURSIVE SumSeq(_)
SumSeq(s) == IF s = <<>> THEN 0 ELSE Head(s) + SumSeq(Tail(s))

cat_latest(a, b) == b

(* torch.cat of 1-d tensors *)
cat(a, b) == a \o b

(* x.squeeze(dim=-1) of the model output, one row <<v>> per sample *)
squeeze(x) == [i \in DOMAIN x |-> x[i][1]]

(* torch.sigmoid, in thousandths, on the raw scores *)
sigmoid(v) ==
    CASE v <= -4 -> 18
      [] v = -3 -> 47
      [] v = -2 -> 119
      [] v = -1 -> 269
      [] v = 0 -> 500
      [] v = 1 -> 731
      [] v = 2 -> 881
      [] v = 3 -> 953
      [] OTHER -> 982

(* log(1 + exp(v)), in thousandths *)
softplus(v) ==
    CASE v <= -4 -> 18
      [] v = -3 -> 49
      [] v = -2 -> 127
      [] v = -1 -> 313
      [] v = 0 -> 693
      [] v = 1 -> 1313
      [] v = 2 -> 2127
      [] v = 3 -> 3049
      [] OTHER -> 4018

loss_func_broadcast(x, y) ==
    LET n == Max(Len(x), Len(y))
        xi(i) == IF Len(x) = 1 THEN x[1] ELSE x[i]
        yi(i) == IF Len(y) = 1 THEN y[1] ELSE y[i]
    IN [err |-> "none",
        value |-> IF Len(x) # Len(y) /\ Len(x) # 1 /\ Len(y) # 1 THEN <<0, 0>>
                  ELSE <<SumSeq([i \in 1..n |->
                             IF yi(i) = 1 THEN softplus(0 - xi(i)) ELSE softplus(xi(i))]),
                         n>>]

(* torch.nn.BCEWithLogitsLoss, mean reduction: <<sum of the per-sample     *)
(* losses in thousandths, samples>>; target and input sizes must agree     *)
loss_func(x, y) ==
    IF Len(x) # Len(y) THEN [err |-> "ValueError", value |-> <<0, 0>>]
    ELSE [err |-> "none",
          value |-> <<SumSeq([i \in DOMAIN x |->
                          IF y[i] = 1 THEN softplus(0 - x[i]) ELSE softplus(x[i])]),
                      Len(x)>>]

----------------------------------------------------------------------------
(* sklearn.metrics.roc_auc_score on binary labels: the ROC curve over the  *)
(* distinct scores taken in decreasing order, integrated by the trapezoid  *)
(* rule. The area is the reduced fraction <<numerator, denominator>>.      *)

Count(y, s, label, t) == Cardinality({i \in DOMAIN y : y[i] = label /\ s[i] >= t})

RECURSIVE Trapezoid(_, _, _, _, _)
Trapezoid(y, s, thresholds, fp0, tp0) ==
    IF thresholds = {} THEN 0
    ELSE LET t == CHOOSE u \in thresholds : \A w \in thresholds : u >= w
             fp == Count(y, s, 0, t)
             tp == Count(y, s, 1, t)
         IN (fp - fp0) * (tp + tp0) + Trapezoid(y, s, thresholds \ {t}, fp, tp)

roc_auc_score_nan(y, s) ==
    IF Len(y) = 0 \/ Len(y) # Len(s) \/ Cardinality({y[i] : i \in DOMAIN y}) # 2
    THEN [err |-> "none", value |-> <<0, 0>>]
    ELSE LET P == Cardinality({i \in DOMAIN y : y[i] = 1})
             N == Len(y) - P
             num == Trapezoid(y, s, {s[i] : i \in DOMAIN s}, 0, 0)
             den == 2 * P * N
             g == GCD(num, den)
         IN [err |-> "none", value |-> <<num \div g, den \div g>>]

roc_auc_score(y, s) ==
    IF Len(y) = 0 \/ Len(y) # Len(s) THEN [err |-> "ValueError", value |-> <<0, 1>>]
    ELSE IF Cardinality({y[i] : i \in DOMAIN y}) # 2
    THEN [err |-> "ValueError", value |-> <<0, 1>>]
    ELSE LET P == Cardinality({i \in DOMAIN y : y[i] = 1})
             N == Len(y) - P
             num == Trapezoid(y, s, {s[i] : i \in DOMAIN s}, 0, 0)
             den == 2 * P * N
             g == GCD(num, den)
         IN [err |-> "none", value |-> <<num \div g, den \div g>>]

----------------------------------------------------------------------------
(* Batches. data.x stands for the feature tensor (data.x of a graph batch, *)
(* data[0] of a flat one) and is kept as its length; data.y are the true   *)
(* labels; data.out is what self.model returns for the batch, one row per  *)
(* graph or sample. A well-formed batch has Len(out) = Len(y).             *)

SeqsOf(S, n) == [1..n -> S]

(* Raw scores drawn for a batch: all of Logits for the single step, the    *)
(* two nonzero ones when the hooks run in any sequence, one score in a     *)
(* call of train()                                                         *)
Rows ==
    {<<v>> : v \in CASE pc = "step" -> Logits
                     [] pc = "hooks" -> Logits \ {0}
                     [] OTHER -> {1}}

WellFormed(limit, g) ==
    UNION {{[x |-> k, y |-> y, out |-> o] :
               y \in SeqsOf(Labels, n), o \in SeqsOf(Rows, n),
               k \in IF g THEN n..(n + MaxExtraNodes) ELSE {n}} : n \in 1..limit}

(* the model returns more or fewer rows than the batch has labels *)
Malformed(limit) ==
    UNION {UNION {{[x |-> n, y |-> y, out |-> o] :
                      y \in SeqsOf(Labels, n), o \in SeqsOf({<<1>>}, m)} :
                  m \in (1..limit) \ {n}} : n \in 1..limit}

Batches(limit, g) == WellFormed(limit, g) \cup Malformed(limit)

NoBatch == [x |-> 0, y |-> <<>>, out |-> <<>>]
NoRet == [loss |-> <<0, 0>>, acc |-> <<0, 0>>, y_pred |-> <<>>]

----------------------------------------------------------------------------
(* BinaryLitModel.forward: the outcome of the call on the current buffers. *)
(* true and score are the buffer attributes as the call leaves them.       *)

Raised(e, t, s) ==
    [err |-> e, loss |-> <<0, 0>>, acc |-> <<0, 0>>, y_pred |-> <<>>,
     true |-> t, score |-> s]

predict_ge(x) == [i \in DOMAIN x |-> x[i] >= 0]

(* y_pred = x > 0 *)
predict(x) == [i \in DOMAIN x |-> x[i] > 0]

(* (y_pred == y_true).float().mean(): <<equal entries, entries>>; tensors  *)
(* of different sizes are compared only when one of them has one entry     *)
accuracy(y_pred, y_true) ==
    LET n == Max(Len(y_pred), Len(y_true))
        p(i) == IF Len(y_pred) = 1 THEN y_pred[1] ELSE y_pred[i]
        t(i) == IF Len(y_true) = 1 THEN y_true[1] ELSE y_true[i]
    IN IF Len(y_pred) # Len(y_true) /\ Len(y_pred) # 1 /\ Len(y_true) # 1
       THEN [err |-> "RuntimeError", value |-> <<0, 0>>]
       ELSE [err |-> "none",
             value |-> <<Cardinality({i \in 1..n : (IF p(i) THEN 1 ELSE 0) = t(i)}), n>>]

(* self.y_<target>_true_buffer = torch.cat(...) and then the same for the  *)
(* score buffer: a missing attribute raises when it is read                *)
append_to(target, y_true, y_score) ==
    IF ~y_true_buffer[target].exists
    THEN [err |-> "AttributeError", true |-> y_true_buffer, score |-> y_score_buffer]
    ELSE LET t == [y_true_buffer EXCEPT
                      ![target] = Tensor(cat(y_true_buffer[target].data, y_true))]
         IN IF ~y_score_buffer[target].exists
            THEN [err |-> "AttributeError", true |-> t, score |-> y_score_buffer]
            ELSE [err |-> "none", true |-> t,
                  score |-> [y_score_buffer EXCEPT
                      ![target] = Tensor(cat(y_score_buffer[target].data, y_score))]]

accumulate_shared(mode, y_true, y_score) ==
    IF mode \notin Modes
    THEN [err |-> "none", true |-> y_true_buffer, score |-> y_score_buffer]
    ELSE append_to(IF mode = "valid" THEN "train" ELSE mode, y_true, y_score)

(* the if / elif chain on mode: the buffers the batch is appended to *)
accumulate(mode, y_true, y_score) ==
    IF mode \notin Modes
    THEN [err |-> "none", true |-> y_true_buffer, score |-> y_score_buffer]
    ELSE append_to(mode, y_true, y_score)

forward(data, mode) ==
    LET x == squeeze(data.out)
        y_true == data.y
        y_pred == predict(x)
        loss == loss_func(x, y_true)
        acc == accuracy(y_pred, y_true)
        y_score == [i \in DOMAIN x |-> sigmoid(x[i])]
        acc_ == accumulate(mode, y_true, y_score)
    IN IF loss.err # "none" THEN Raised(loss.err, y_true_buffer, y_score_buffer)
       ELSE IF acc.err # "none" THEN Raised(acc.err, y_true_buffer, y_score_buffer)
       ELSE IF acc_.err # "none" THEN Raised(acc_.err, acc_.true, acc_.score)
       ELSE [err |-> "none", loss |-> loss.value, acc |-> acc.value,
             y_pred |-> y_pred, true |-> acc_.true, score |-> acc_.score]

----------------------------------------------------------------------------
(* The caller of the hooks. pc = "hooks": any hook may be called next.     *)
(* pc = "step": one batch step is called. Otherwise pc names the statement *)
(* of train() to run next or, inside trainer.fit and trainer.test, the     *)
(* hook the trainer calls next: a training epoch runs its batches, then    *)
(* the validation loop, then on_train_epoch_end; a loader yields at least  *)
(* one batch.                                                              *)

StepHooks == {"training_step", "validation_step", "test_step"}

At(hook) ==
    /\ err = "none"
    /\ \/ pc = "hooks"
       \/ pc = hook
       \/ pc = "step" /\ hook \in StepHooks

after_fit_finish == "wandb.finish"

(* the statements of train() that follow trainer.fit and trainer.test *)
after_fit == "trainer.test"
after_test == "wandb.finish"

After(hook, more) ==
    CASE pc = "hooks" -> "hooks"
      [] pc = "step" -> "done"
      [] OTHER ->
         CASE hook = "on_train_epoch_start" -> "training_step"
           [] hook = "training_step" ->
                IF more THEN "training_step" ELSE "on_validation_epoch_start"
           [] hook = "on_validation_epoch_start" -> "validation_step"
           [] hook = "validation_step" ->
                IF more THEN "validation_step" ELSE "on_validation_epoch_end"
           [] hook = "on_validation_epoch_end" -> "on_train_epoch_end"
           [] hook = "on_train_epoch_end" ->
                IF epoch + 1 < MaxEpochs THEN "on_train_epoch_start" ELSE after_fit
           [] hook = "on_test_epoch_start" -> "test_step"
           [] hook = "test_step" ->
                IF more THEN "test_step" ELSE "on_test_epoch_end"
           [] hook = "on_test_epoch_end" -> after_test

(* The loader after a phase start: the trainer iterates its loader anew.   *)
Reloaded == IF pc = "hooks" THEN loader ELSE LoaderSize

(* The loader after a batch: more batches follow only while it holds some. *)
Drawn(data, more) ==
    /\ Max(Len(data.y), Len(data.out)) <= loader
    /\ more => loader > Max(Len(data.y), Len(data.out))
    /\ loader' = loader - Max(Len(data.y), Len(data.out))

(* ckpt_path of train(): unbound until assigned; None is the empty path *)
None == <<>>
Unbound == [bound |-> FALSE, val |-> None]
Bound(v) == [bound |-> TRUE, val |-> v]

Event(name) == [call |-> name, ckpt_path |-> None]

LogEntry(name, value, batch_size) ==
    [name |-> name, value |-> value, batch_size |-> batch_size]

(* time.time() differences are not modelled: one value stands for them *)
delta_time == <<0, 1>>

Op(hook, mode, data, ret, batches) ==
    [hook |-> hook, mode |-> mode, data |-> data, ret |-> ret, batches |-> batches]

----------------------------------------------------------------------------
(* Phase start hooks *)

fresh_if_missing(buffer, mode) ==
    IF buffer[mode].exists THEN buffer ELSE [buffer EXCEPT ![mode] = Tensor(<<>>)]

(* self.y_<mode>_..._buffer = torch.tensor([]) *)
fresh(buffer, mode) == [buffer EXCEPT ![mode] = Tensor(<<>>)]

PhaseStart(hook, mode) ==
    /\ At(hook)
    /\ y_true_buffer' = fresh(y_true_buffer, mode)
    /\ y_score_buffer' = fresh(y_score_buffer, mode)
    /\ logged' = <<>>
    /\ pc' = After(hook, FALSE)
    /\ loader' = Reloaded
    /\ epochBatches' = [epochBatches EXCEPT ![mode] = <<>>]
    /\ phaseState' = [phaseState EXCEPT ![mode] = "ACCUMULATING"]
    /\ reads' = [reads EXCEPT ![mode] = 0]
    /\ lastOp' = Op(hook, mode, NoBatch, NoRet, <<>>)
    /\ UNCHANGED <<graph, err, epoch, driverVars, completed>>

on_train_epoch_start ==
    /\ PhaseStart("on_train_epoch_start", "train")
    /\ start_time' = Tensor(<<>>)

on_validation_epoch_start ==
    /\ PhaseStart("on_validation_epoch_start", "valid")
    /\ UNCHANGED start_time

on_test_epoch_start ==
    /\ PhaseStart("on_test_epoch_start", "test")
    /\ UNCHANGED start_time

----------------------------------------------------------------------------
(* Batch steps. batch_size is len(data.x) of a graph batch and             *)
(* len(data[0]) of a flat one: the length of the feature tensor.           *)

batch_size_of(data) == data.x

BatchStep(hook, phase, mode, metrics) ==
    /\ At(hook)
    /\ \E data \in Batches(loader, graph), more \in BOOLEAN :
         LET batch_size == batch_size_of(data)
             r == forward(data, mode)
         IN /\ Drawn(data, more)
            /\ y_true_buffer' = r.true
            /\ y_score_buffer' = r.score
            /\ err' = r.err
            /\ logged' = IF r.err = "none"
                          THEN [n \in DOMAIN metrics |->
                                   LogEntry(metrics[n][1],
                                            IF metrics[n][2] = "loss" THEN r.loss ELSE r.acc,
                                            batch_size)]
                          ELSE <<>>
            /\ pc' = IF r.err = "none" THEN After(hook, more) ELSE pc
            /\ epochBatches' =
                   IF r.err = "none"
                   THEN [epochBatches EXCEPT
                            ![phase] = Append(@, [y |-> data.y, out |-> data.out])]
                   ELSE epochBatches
            /\ lastOp' = Op(hook, phase, data,
                            [loss |-> r.loss, acc |-> r.acc, y_pred |-> r.y_pred], <<>>)
    /\ UNCHANGED <<graph, start_time, epoch, driverVars, phaseState, reads, completed>>

training_step ==
    BatchStep("training_step", "train", "train",
              <<(<<"train_loss", "loss">>), (<<"train_acc", "acc">>)>>)

validation_step ==
    BatchStep("validation_step", "valid", "valid", <<(<<"valid_acc", "acc">>)>>)

test_step ==
    BatchStep("test_step", "test", "test", <<(<<"test_acc", "acc">>)>>)

----------------------------------------------------------------------------
(* Phase end hooks: the aggregate is computed before anything is logged    *)
(* and before the buffers are deleted; an exception leaves both undone.    *)

deleted_kept(buffer, mode) == buffer

deleted(buffer, mode) == [buffer EXCEPT ![mode] = NoAttr]

PhaseEnd(hook, mode, timed, metric) ==
    /\ At(hook)
    /\ LET missing == (timed /\ ~start_time.exists)
                          \/ ~y_true_buffer[mode].exists
                          \/ ~y_score_buffer[mode].exists
           roc_auc == roc_auc_score(y_true_buffer[mode].data, y_score_buffer[mode].data)
           e == IF missing THEN "AttributeError" ELSE roc_auc.err
       IN /\ err' = e
          /\ logged' = IF e # "none" THEN <<>>
                        ELSE (IF timed THEN <<LogEntry("epoch_time", delta_time, 0)>>
                              ELSE <<>>)
                             \o <<LogEntry(metric, roc_auc.value, 0)>>
          /\ y_true_buffer' = IF e = "none" THEN deleted(y_true_buffer, mode)
                               ELSE y_true_buffer
          /\ y_score_buffer' = IF e = "none" THEN deleted(y_score_buffer, mode)
                                ELSE y_score_buffer
          /\ reads' = IF missing THEN reads ELSE [reads EXCEPT ![mode] = @ + 1]
          /\ phaseState' = IF missing THEN phaseState
                            ELSE [phaseState EXCEPT
                                     ![mode] = IF e = "none" THEN "IDLE" ELSE "AGGREGATING"]
          /\ epochBatches' = IF e = "none" THEN [epochBatches EXCEPT ![mode] = <<>>]
                              ELSE epochBatches
          /\ completed' = IF e = "none" THEN [completed EXCEPT ![mode] = TRUE]
                           ELSE completed
          /\ lastOp' = Op(hook, mode, NoBatch, NoRet,
                          IF missing THEN <<>> ELSE epochBatches[mode])
          /\ epoch' = IF pc = hook /\ timed /\ e = "none" THEN epoch + 1 ELSE epoch
          /\ calls' = IF pc = hook /\ e = "none" /\ timed /\ epoch + 1 >= MaxEpochs
                       THEN Append(calls, Event("trainer.fit returned"))
                       ELSE IF pc = hook /\ e = "none" /\ hook = "on_test_epoch_end"
                       THEN Append(calls, Event("trainer.test returned"))
                       ELSE calls
          /\ pc' = IF e = "none" THEN After(hook, FALSE) ELSE pc
    /\ UNCHANGED <<graph, start_time, loader, wandb, listing, ckpt_path>>

on_train_epoch_end == PhaseEnd("on_train_epoch_end", "train", TRUE, "train_roc_auc")

on_validation_epoch_end == PhaseEnd("on_validation_epoch_end", "valid", FALSE, "val_roc_auc")

on_test_epoch_end == PhaseEnd("on_test_epoch_end", "test", FALSE, "test_roc_auc")

----------------------------------------------------------------------------
(* train() of a.py. File names and paths are sequences of characters.      *)

ckpt_dir == <<"checkpoints">>
suffix == <<"c", "k", "p", "t">>

Names == {<<"a", ".", "c", "k", "p", "t">>,
          <<"b", ".", "c", "k", "p", "t">>,
          <<"c", ".", "t", "x", "t">>}

(* str.endswith *)
endswith(file, tail) ==
    /\ Len(file) >= Len(tail)
    /\ SubSeq(file, Len(file) - Len(tail) + 1, Len(file)) = tail

RECURSIVE scan_first(_, _)
scan_first(files, path) ==
    IF files = <<>> THEN path
    ELSE IF endswith(Head(files), suffix)
    THEN Bound(ckpt_dir \o <<"/">> \o Head(files))
    ELSE scan_first(Tail(files), path)

(* the for loop over os.listdir(ckpt_dir) *)
RECURSIVE scan(_, _)
scan(files, path) ==
    IF files = <<>> THEN path
    ELSE scan(Tail(files),
              IF endswith(Head(files), suffix)
              THEN Bound(ckpt_dir \o <<"/">> \o Head(files))
              ELSE path)

(* the try / except around the loop: wandb_info["id"] is missing when the  *)
(* logger is off, os.listdir raises when the directory is missing          *)
discover ==
    IF ~wandb \/ ~listing.exists THEN Bound(None)
    ELSE scan(listing.entries, ckpt_path)

load_ckpt ==
    /\ err = "none"
    /\ pc = "load_ckpt"
    /\ start_time = NoAttr
    /\ graph = FALSE          \* train_qfcgnn calls train(..., graph=False)
    /\ ckpt_path' = discover
    /\ pc' = "trainer.fit"
    /\ UNCHANGED <<modelVars, epoch, wandb, listing, calls, loader, epochBatches,
                   phaseState, reads, completed, lastOp>>

trainer_fit ==
    /\ err = "none"
    /\ pc = "trainer.fit"
    /\ IF ~ckpt_path.bound
       THEN /\ err' = "UnboundLocalError"
            /\ UNCHANGED <<pc, calls>>
       ELSE /\ calls' = Append(calls, [call |-> "trainer.fit", ckpt_path |-> ckpt_path.val])
            /\ pc' = "on_train_epoch_start"
            /\ UNCHANGED err
    /\ UNCHANGED <<graph, y_true_buffer, y_score_buffer, start_time, logged, epoch,
                   wandb, listing, ckpt_path, loader, epochBatches, phaseState, reads,
                   completed, lastOp>>

trainer_test ==
    /\ err = "none"
    /\ pc = "trainer.test"
    /\ calls' = Append(calls, Event("trainer.test"))
    /\ pc' = "on_test_epoch_start"
    /\ UNCHANGED <<modelVars, epoch, wandb, listing, ckpt_path, loader, epochBatches,
                   phaseState, reads, completed, lastOp>>

wandb_finish ==
    /\ err = "none"
    /\ pc = "wandb.finish"
    /\ calls' = IF wandb THEN Append(calls, Event("wandb.finish")) ELSE calls
    /\ pc' = "return"
    /\ UNCHANGED <<modelVars, epoch, wandb, listing, ckpt_path, loader, epochBatches,
                   phaseState, reads, completed, lastOp>>

----------------------------------------------------------------------------
(* Specifications *)

Listings ==
    {[exists |-> FALSE, entries |-> <<>>]} \cup
    {[exists |-> TRUE, entries |-> e] :
        e \in {f \in UNION {SeqsOf(Names, n) : n \in 0..MaxEntries} :
                  \A i, j \in DOMAIN f : i # j => f[i] # f[j]}}

InitModel ==
    /\ logged = <<>>
    /\ err = "none"
    /\ epoch = 0
    /\ ckpt_path = Unbound
    /\ calls = <<>>
    /\ epochBatches = [m \in Modes |-> <<>>]
    /\ reads = [m \in Modes |-> 0]
    /\ completed = [m \in Modes |-> FALSE]
    /\ lastOp = Op("__init__", "none", NoBatch, NoRet, <<>>)

Init ==
    /\ InitModel
    /\ y_true_buffer = [m \in Modes |-> NoAttr]
    /\ y_score_buffer = [m \in Modes |-> NoAttr]
    /\ phaseState = [m \in Modes |-> "IDLE"]
    /\ pc = "load_ckpt"
    /\ start_time = NoAttr
    /\ graph = FALSE          \* train_qfcgnn calls train(..., graph=False)
    /\ wandb \in BOOLEAN
    /\ listing \in Listings
    /\ loader = 0

InitHooks ==
    /\ InitModel
    /\ y_true_buffer = [m \in Modes |-> NoAttr]
    /\ y_score_buffer = [m \in Modes |-> NoAttr]
    /\ phaseState = [m \in Modes |-> "IDLE"]
    /\ pc = "hooks"
    /\ start_time = NoAttr
    /\ graph = FALSE
    /\ wandb = TRUE
    /\ listing = [exists |-> FALSE, entries |-> <<>>]
    /\ loader = MaxSamples

InitForward ==
    /\ InitModel
    /\ y_true_buffer = [m \in Modes |-> Tensor(<<>>)]
    /\ y_score_buffer = [m \in Modes |-> Tensor(<<>>)]
    /\ phaseState = [m \in Modes |-> "ACCUMULATING"]
    /\ pc = "step"
    /\ start_time = Tensor(<<>>)
    /\ graph \in BOOLEAN
    /\ wandb = TRUE
    /\ listing = [exists |-> FALSE, entries |-> <<>>]
    /\ loader = MaxLen

NextSteps ==
    \/ training_step
    \/ validation_step
    \/ test_step

NextHooks ==
    \/ on_train_epoch_start
    \/ on_validation_epoch_start
    \/ on_test_epoch_start
    \/ NextSteps
    \/ on_train_epoch_end
    \/ on_validation_epoch_end
    \/ on_test_epoch_end

Next ==
    \/ load_ckpt
    \/ trainer_fit
    \/ NextHooks
    \/ trainer_test
    \/ wandb_finish

Spec == Init /\ [][Next]_vars

SpecHooks == InitHooks /\ [][NextHooks]_vars

SpecForward == InitForward /\ [][NextSteps]_vars

----------------------------------------------------------------------------
(* Vocabulary of the properties *)

StartHooks == {"on_train_epoch_start", "on_validation_epoch_start", "on_test_epoch_start"}
EndHooks == {"on_train_epoch_end", "on_validation_epoch_end", "on_test_epoch_end"}

RECURSIVE LabelsOf(_)
LabelsOf(batches) ==
    IF batches = <<>> THEN <<>> ELSE Head(batches).y \o LabelsOf(Tail(batches))

RECURSIVE ScoresOf(_)
ScoresOf(batches) ==
    IF batches = <<>> THEN <<>>
    ELSE [i \in DOMAIN Head(batches).out |-> sigmoid(Head(batches).out[i][1])]
         \o ScoresOf(Tail(batches))

Orders(n) == {f \in [1..n -> 1..n] : \A i, j \in 1..n : f[i] = f[j] => i = j}

Classes(labels) == {labels[i] : i \in DOMAIN labels}

RanStep(op) == op.hook \in StepHooks
RanEnd(op) == op.hook \in EndHooks

----------------------------------------------------------------------------
(* C1: in any sequence of hooks and batch steps, and for every phase: the  *)
(* aggregation of a phase-epoch begins only in a state where the phase's   *)
(* buffers hold every batch stepped in that phase-epoch, in order; and     *)
(* once the aggregation has begun, no later call changes the buffers of    *)
(* that phase until the next phase start.                                  *)
C1_AggregationOrdering ==
    [][\A p \in Modes :
          /\ reads'[p] > reads[p]
                => /\ y_true_buffer[p].data = LabelsOf(epochBatches[p])
                   /\ y_score_buffer[p].data = ScoresOf(epochBatches[p])
          /\ (reads[p] > 0 /\ reads'[p] > 0)
                => /\ y_true_buffer'[p] = y_true_buffer[p]
                   /\ y_score_buffer'[p] = y_score_buffer[p]]_vars

(* a train step called after the train aggregation ran: it fails *)
C1_Witness ==
    /\ reads["train"] = 1
    /\ completed["train"]
    /\ lastOp.hook = "training_step"
    /\ err = "AttributeError"

(* C3: a batch step whose model output and label vector differ in length   *)
(* fails and leaves every buffer as it was.                                *)
C3_MismatchAtomic ==
    [][(RanStep(lastOp') /\ Len(lastOp'.data.y) # Len(lastOp'.data.out))
          => /\ err' # "none"
             /\ y_true_buffer' = y_true_buffer
             /\ y_score_buffer' = y_score_buffer]_vars

(* a mismatched validation batch arrives after a batch was accumulated *)
C3_Witness ==
    /\ lastOp.hook = "validation_step"
    /\ Len(lastOp.data.y) # Len(lastOp.data.out)
    /\ err = "ValueError"
    /\ Len(y_true_buffer["valid"].data) > 0
    /\ Len(y_score_buffer["valid"].data) = Len(y_true_buffer["valid"].data)

(* C4: a phase end hook that finds fewer than two label classes in the     *)
(* phase's buffer (no batch at all, or one class only) raises and logs     *)
(* nothing.                                                                *)
C4_SingleClassFails ==
    [][\A p \in Modes :
          (/\ RanEnd(lastOp') /\ lastOp'.mode = p
           /\ y_true_buffer[p].exists
           /\ Cardinality(Classes(y_true_buffer[p].data)) < 2)
          => /\ err' # "none"
             /\ logged' = <<>>
             /\ \A i \in DOMAIN logged' : logged'[i].name \notin
                    {"train_roc_auc", "val_roc_auc", "test_roc_auc"}]_vars

(* the test phase ends on three samples of class 1 *)
C4_Witness ==
    /\ lastOp.hook = "on_test_epoch_end"
    /\ y_true_buffer["test"].data = <<1, 1, 1>>
    /\ err = "ValueError"
    /\ logged = <<>>

(* the train phase ends right after its start, on no batch *)
C4_WitnessEmpty ==
    /\ lastOp.hook = "on_train_epoch_end"
    /\ y_true_buffer["train"] = Tensor(<<>>)
    /\ err = "ValueError"
    /\ logged = <<>>

(* C5: the ROC-AUC a phase end hook logs is the ROC-AUC of the             *)
(* concatenation, in append order, of the batches stepped in that          *)
(* phase-epoch, and the concatenation in any other batch order has the     *)
(* same ROC-AUC.                                                           *)
C5_AggregateOfConcatenation ==
    (RanEnd(lastOp) /\ err = "none")
    => LET b == lastOp.batches
           auc(f) == roc_auc_score(LabelsOf([i \in DOMAIN b |-> b[f[i]]]),
                                   ScoresOf([i \in DOMAIN b |-> b[f[i]]]))
           id == [i \in DOMAIN b |-> i]
       IN /\ logged # <<>>
          /\ logged[Len(logged)].name \in {"train_roc_auc", "val_roc_auc", "test_roc_auc"}
          /\ auc(id).err = "none"
          /\ logged[Len(logged)].value = auc(id).value
          /\ \A f \in Orders(Len(b)) : auc(f) = auc(id)

(* three batches, not all alike, aggregate to an area strictly between 0   *)
(* and 1                                                                   *)
C5_Witness ==
    /\ lastOp.hook = "on_train_epoch_end"
    /\ err = "none"
    /\ Len(lastOp.batches) = 3
    /\ lastOp.batches[1] # lastOp.batches[2]
    /\ logged[Len(logged)].value = <<3, 4>>

(* C6: on a batch whose model output has one score per label, the          *)
(* predicted label of a sample is 1 exactly when its raw score is above 0  *)
(* (a score of 0 predicts class 0) and the accuracy returned is the number *)
(* of samples whose predicted label is the true label over the batch       *)
(* length; labels [1,0,1,0] with scores of signs [+,-,+,-] give            *)
(* predictions [1,0,1,0] and accuracy 1.                                   *)
C6_ThresholdAccuracy ==
    (RanStep(lastOp) /\ Len(lastOp.data.y) = Len(lastOp.data.out))
    => LET y == lastOp.data.y
           raw == lastOp.data.out
           n == Len(y)
           pred == lastOp.ret.y_pred
           right == {i \in 1..n : \/ raw[i][1] >= 1 /\ y[i] = 1
                                  \/ raw[i][1] <= 0 /\ y[i] = 0}
       IN /\ err = "none"
          /\ Len(pred) = n
          /\ \A i \in 1..n : pred[i] <=> raw[i][1] >= 1
          /\ \A i \in 1..n : raw[i][1] = 0 => ~pred[i]
          /\ lastOp.ret.acc = <<Cardinality(right), n>>
          /\ logged[Len(logged)].value = <<Cardinality(right), n>>
          /\ (y = <<1, 0, 1, 0>> /\ raw = <<(<<1>>), (<<-1>>), (<<1>>), (<<-1>>)>>)
                => pred = <<TRUE, FALSE, TRUE, FALSE>> /\ lastOp.ret.acc = <<4, 4>>

(* the batch of the example *)
C6_Witness ==
    /\ lastOp.hook = "training_step"
    /\ lastOp.data.y = <<1, 0, 1, 0>>
    /\ lastOp.data.out = <<(<<1>>), (<<-1>>), (<<1>>), (<<-1>>)>>
    /\ lastOp.ret.y_pred = <<TRUE, FALSE, TRUE, FALSE>>
    /\ lastOp.ret.acc = <<4, 4>>

(* a score of exactly 0 on a sample of class 1: predicted class 0, a miss *)
C6_WitnessZero ==
    /\ RanStep(lastOp)
    /\ lastOp.data.y = <<1>>
    /\ lastOp.data.out = <<(<<0>>)>>
    /\ lastOp.ret.y_pred = <<FALSE>>
    /\ lastOp.ret.acc = <<0, 1>>

(* C7: the lifecycle of each phase's buffers. Right after the phase start  *)
(* hook both are empty; in every state both exist or neither does, they    *)
(* have the same length and hold exactly the batches stepped since the     *)
(* last phase start; a batch step of the phase lengthens them by the       *)
(* batch's sample count and nothing else changes them while they exist;    *)
(* the aggregate is read once per phase-epoch, by the phase end hook; and  *)
(* once the end hook has returned the buffers no longer exist.             *)
C7_State ==
    \A p \in Modes :
       /\ y_true_buffer[p].exists = y_score_buffer[p].exists
       /\ Len(y_true_buffer[p].data) = Len(y_score_buffer[p].data)
       /\ y_true_buffer[p].exists
             => /\ y_true_buffer[p].data = LabelsOf(epochBatches[p])
                /\ y_score_buffer[p].data = ScoresOf(epochBatches[p])
       /\ (lastOp.hook \in StartHooks /\ lastOp.mode = p)
             => y_true_buffer[p] = Tensor(<<>>) /\ y_score_buffer[p] = Tensor(<<>>)
       /\ reads[p] <= 1
       /\ phaseState[p] = "ACCUMULATING" => reads[p] = 0 /\ y_true_buffer[p].exists
       /\ phaseState[p] = "IDLE" => ~y_true_buffer[p].exists /\ ~y_score_buffer[p].exists
       /\ (RanEnd(lastOp) /\ lastOp.mode = p /\ err = "none")
             => reads[p] = 1 /\ phaseState[p] = "IDLE"

C7_Step ==
    \A p \in Modes :
       /\ (/\ y_true_buffer[p].exists /\ y_true_buffer'[p].exists
           /\ ~(lastOp'.hook \in StartHooks /\ lastOp'.mode = p))
          => IF RanStep(lastOp') /\ lastOp'.mode = p /\ err' = "none"
             THEN /\ Len(y_true_buffer'[p].data)
                        = Len(y_true_buffer[p].data) + Len(lastOp'.data.y)
                  /\ Len(y_score_buffer'[p].data)
                        = Len(y_score_buffer[p].data) + Len(lastOp'.data.y)
             ELSE /\ y_true_buffer'[p] = y_true_buffer[p]
                  /\ y_score_buffer'[p] = y_score_buffer[p]
       /\ reads'[p] > reads[p] => RanEnd(lastOp') /\ lastOp'.mode = p

C7_BufferLifecycle == []C7_State /\ [][C7_Step]_vars

(* a second train phase-epoch starts after a first one appended and ended *)
C7_Witness ==
    /\ completed["train"]
    /\ lastOp.hook = "on_train_epoch_start"
    /\ y_true_buffer["train"] = Tensor(<<>>)
    /\ y_score_buffer["train"] = Tensor(<<>>)
    /\ loader < MaxSamples

(* C8: a hook or batch step of one phase leaves the buffers of the other   *)
(* two phases unchanged, and the ROC-AUC a phase end hook logs is the      *)
(* ROC-AUC of the pairs stepped under that phase.                          *)
C8_PhaseIsolation ==
    [][\A p \in Modes :
          lastOp'.mode = p
          => /\ \A q \in Modes \ {p} :
                   /\ y_true_buffer'[q] = y_true_buffer[q]
                   /\ y_score_buffer'[q] = y_score_buffer[q]
             /\ (RanEnd(lastOp') /\ err' = "none")
                   => logged'[Len(logged')].value
                        = roc_auc_score(LabelsOf(epochBatches[p]),
                                        ScoresOf(epochBatches[p])).value]_vars

(* a validation phase-epoch ran and ended while the train phase was        *)
(* accumulating: the train buffers still hold the train batch              *)
C8_Witness ==
    /\ phaseState["train"] = "ACCUMULATING"
    /\ Len(y_true_buffer["train"].data) >= 1
    /\ y_true_buffer["train"].data = LabelsOf(epochBatches["train"])
    /\ lastOp.hook = "on_validation_epoch_end"
    /\ err = "none"
    /\ logged[1].name = "val_roc_auc"

(* C11: a batch step that returns logs each of its metrics with a         *)
(* batch_size equal to the number of (label, score) pairs the step         *)
(* appended to the buffers of its phase, which is the number of labels of  *)
(* the batch, whether the batch is a graph batch or a flat one.            *)
C11_BatchSizeIsAppended ==
    [][(RanStep(lastOp') /\ err' = "none")
          => LET p == lastOp'.mode
                 pairs == Len(y_true_buffer'[p].data) - Len(y_true_buffer[p].data)
             IN /\ logged' # <<>>
                /\ pairs = Len(y_score_buffer'[p].data) - Len(y_score_buffer[p].data)
                /\ pairs = Len(lastOp'.data.y)
                /\ \A i \in DOMAIN logged' : logged'[i].batch_size = pairs]_vars

----------------------------------------------------------------------------
(* Properties of train() *)

IsCkpt(file) ==
    LET n == Len(file)
    IN n >= 4 /\ file[n - 3] = "c" /\ file[n - 2] = "k" /\ file[n - 1] = "p" /\ file[n] = "t"

Candidates == {i \in DOMAIN listing.entries : IsCkpt(listing.entries[i])}

PathOf(i) == <<"checkpoints", "/">> \o listing.entries[i]

FitStatementRan == Len(calls) > 0 \/ err = "UnboundLocalError"

(* C2: once train() has executed its trainer.fit statement: if the         *)
(* checkpoint directory held exactly one entry and it ends in the suffix,  *)
(* trainer.fit was called with that file's path; if the directory was      *)
(* missing or empty, trainer.fit was called with ckpt_path = None and no   *)
(* error was raised by the statement.                                      *)
C2_CheckpointRouting ==
    FitStatementRan
    => /\ (wandb /\ listing.exists /\ Len(listing.entries) = 1 /\ Candidates = {1})
             => /\ err # "UnboundLocalError"
                /\ calls[1] = [call |-> "trainer.fit", ckpt_path |-> PathOf(1)]
       /\ (~listing.exists \/ listing.entries = <<>>)
             => /\ err # "UnboundLocalError"
                /\ calls[1] = [call |-> "trainer.fit", ckpt_path |-> None]

(* C9: with the logger on, the calls of one train() are, in this order and *)
(* each at most once, trainer.fit, its return, trainer.test, its return,   *)
(* wandb.finish; and when train() returns all five have happened.          *)
RunOrder ==
    <<"trainer.fit", "trainer.fit returned", "trainer.test", "trainer.test returned",
      "wandb.finish">>

C9_FitTestFinish ==
    wandb
    => /\ Len(calls) <= Len(RunOrder)
       /\ \A i \in DOMAIN calls : calls[i].call = RunOrder[i]
       /\ pc = "return" => Len(calls) = Len(RunOrder)

(* train() has returned after fit, test and finish *)
C9_Witness ==
    /\ wandb
    /\ pc = "return"
    /\ err = "none"
    /\ [i \in DOMAIN calls |-> calls[i].call] = RunOrder

(* C10: when the checkpoint directory holds entries ending in the suffix,  *)
(* trainer.fit is called with the path of the last of them in enumeration  *)
(* order; a path passed to trainer.fit is always that of an entry ending   *)
(* in the suffix.                                                          *)
C10_LastCandidateWins ==
    /\ (wandb /\ listing.exists /\ Candidates # {} /\ pc \notin {"load_ckpt", "trainer.fit"})
          => /\ Len(calls) >= 1
             /\ calls[1].call = "trainer.fit"
             /\ calls[1].ckpt_path
                  = PathOf(CHOOSE i \in Candidates : \A j \in Candidates : j <= i)
    /\ \A k \in DOMAIN calls :
          (calls[k].call = "trainer.fit" /\ calls[k].ckpt_path # None)
          => \E i \in Candidates : calls[k].ckpt_path = PathOf(i)

(* two candidates: the one enumerated last is passed *)
C10_Witness ==
    /\ listing.entries = <<(<<"a", ".", "c", "k", "p", "t">>), (<<"b", ".", "c", "k", "p", "t">>)>>
    /\ Len(calls) >= 1
    /\ calls[1].ckpt_path = <<"checkpoints", "/", "b", ".", "c", "k", "p", "t">>

(* a candidate followed by an entry without the suffix: the candidate is   *)
(* passed                                                                  *)
C10_WitnessOther ==
    /\ listing.entries = <<(<<"a", ".", "c", "k", "p", "t">>), (<<"c", ".", "t", "x", "t">>)>>
    /\ Len(calls) >= 1
    /\ calls[1].ckpt_path = <<"checkpoints", "/", "a", ".", "c", "k", "p", "t">>

====
